---- MODULE Spec2Model ----
(***************************************************************************)
(* Connection lifecycle of the PushFlo realtime client.                    *)
(*                                                                         *)
(*   ConnectionStateMachine  src/src/client/ConnectionStateMachine.ts      *)
(*   WebSocketManager        src/src/client/WebSocketManager.ts            *)
(*   Heartbeat               src/unnamed/part_004                          *)
(*   SubscriptionManager     src/unnamed/part_003                          *)
(*   PushFloClient           src/unnamed/part_005                          *)
(*                                                                         *)
(* One action is one task of the JavaScript event loop: an application     *)
(* call, a timer callback or a WebSocket event, together with the promise  *)
(* continuations (microtasks) it releases, which run before the next task. *)
(* The WebSocket URL is taken to be well formed, so `new WebSocket` does   *)
(* not throw.  Listeners and callbacks registered by the application are   *)
(* taken not to throw and, except in SpecRe, not to call back into the     *)
(* client; SpecRe follows the client with one listener that does.  Every   *)
(* subscription is taken to register all four callbacks, so a callback of  *)
(* an entry is identified by its name and the entry's channel.             *)
(***************************************************************************)
EXTENDS Integers, Sequences, FiniteSets, TLC

\* ---------------------------------------------------------------- bounds
NumChannels == 2          \* channel names the application uses
MaxCeiling == 2           \* the configured maxReconnectAttempts, when not 0
MaxAttempt == 3           \* cap on reconnectAttempt when the ceiling is 0
MaxStale == 1             \* cap on overwritten, still armed heartbeat timers
NumObservers == 2         \* state observers of the stand-alone state machine
MaxInterval == 2          \* longest heartbeat interval and pongTimeout option
MaxTime == 6              \* the clock of the stand-alone heartbeat stops here
MaxTries == 3             \* largest maxAttempts option given to retry()
MaxInvocations == 4       \* cap on the invocations of fn when maxAttempts is 0
MaxDelay == 4             \* largest initialDelay and maxDelay option, in ms
MaxMultiplier == 2        \* largest multiplier option
MaxBackoffAttempt == 3    \* largest attempt number given to calculateBackoff
JitterSteps == 4          \* Math.random() returns k / JitterSteps, k < JitterSteps
MaxSubs == 3              \* subscribe() calls told apart in the facade's registry

\* Channel names are numbered; 0 is the empty string, the one falsy name.
EmptyName == 0
Channels == 1..NumChannels
Names == {EmptyName} \cup Channels
Observers == 1..NumObservers

ConnectionState == {"disconnected", "connecting", "connected", "error"}

\* a timer field that refers to no armed timer; an option left undefined
Null == -1

\* nothing to observe about the stand-alone heartbeat
NoObs == [startAt |-> Null, pinged |-> FALSE, timedOut |-> FALSE,
          pongAt |-> Null, pongPinged |-> FALSE, unanswered |-> Null]

\* ------------------------------------------------- ConnectionStateMachine
\* the table with disconnected -> connected let through
VALID_TRANSITIONS_Loose ==
  { <<"disconnected", "connecting">>,
    <<"disconnected", "connected">>,
    <<"connecting", "connected">>,
    <<"connecting", "disconnected">>,
    <<"connecting", "error">>,
    <<"connected", "disconnected">>,
    <<"connected", "error">>,
    <<"error", "connecting">>,
    <<"error", "disconnected">> }

VALID_TRANSITIONS ==
  { <<"disconnected", "connecting">>,
    <<"connecting", "connected">>,
    <<"connecting", "disconnected">>,
    <<"connecting", "error">>,
    <<"connected", "disconnected">>,
    <<"connected", "error">>,
    <<"error", "connecting">>,
    <<"error", "disconnected">> }

\* transition(to): the return value
TransitionOk(s, to) == (s = to) \/ (<<s, to>> \in VALID_TRANSITIONS)

\* transition(to): whether the listeners are notified
TransitionNotifies(s, to) == (s # to) /\ (<<s, to>> \in VALID_TRANSITIONS)

\* transition(to): the state afterwards
Transition(s, to) == IF TransitionNotifies(s, to) THEN to ELSE s

\* forceTransition(to): the state afterwards
ForceTransition(s, to) == to

\* ------------------------------------------------------------------ errors
Err(code, retryable) == [code |-> code, retryable |-> retryable]
NoErr == Err("none", FALSE)

AlreadyConnected == Err("ALREADY_CONNECTED", FALSE)
ConnectionInProgress == Err("CONNECTION_IN_PROGRESS", FALSE)
TimeoutError == Err("CONNECTION_TIMEOUT", TRUE)
FailedError == Err("CONNECTION_FAILED", TRUE)
MaxAttemptsError == Err("MAX_RECONNECT_ATTEMPTS", FALSE)
InvalidChannel == Err("INVALID_CHANNEL", FALSE)

\* codes a server error frame may carry
ServerCodes == {"UNAUTHORIZED", "INVALID_TOKEN", "RATE_LIMITED"}
AuthCodes == {"UNAUTHORIZED", "INVALID_TOKEN"}

\* handleErrorMessage: the error object built from the frame's code
ServerError(code) ==
  IF code \in AuthCodes THEN Err("UNAUTHORIZED", FALSE) ELSE Err(code, TRUE)

Ev(type, err) == [type |-> type, err |-> err]

Range(f) == {f[i] : i \in 1..Len(f)}

\* what a synchronous call returns or throws
Returned(kind) == [kind |-> kind, err |-> NoErr, origin |-> "app"]
Threw(err) == [kind |-> "threw", err |-> err, origin |-> "app"]

\* retry(): errors are told apart by who threw them; `by` is the invocation
\* of fn that threw, 0 for an AbortError retry() or sleep() made itself.
\* kind "fatal" is an error isRetryable(error) is false for.
ErrorKinds == {"retryable", "fatal", "abort"}
Thrown(kind, by) == [kind |-> kind, by |-> by]
NoThrown == Thrown("none", 0)
AbortError == Thrown("abort", 0)

\* no call of retry() has been made
NoRetry == [pc |-> "idle", maxAttempts |-> 0, signal |-> "none", attempt |-> 0,
            invocations |-> 0, lastError |-> NoThrown, onRetry |-> <<>>,
            slept |-> 0, outcome |-> "none", value |-> 0, error |-> NoThrown]

\* no call of calculateBackoff() has been made; multiplier2 is the multiplier
\* in halves (3 is the default 1.5)
NoBackoff == [attempt |-> 0, initialDelay |-> 0, maxDelay |-> 0, multiplier2 |-> 2,
              draw |-> 0, delay |-> Null]

VARIABLES
  \* WebSocketManager options
  autoReconnect, maxReconnectAttempts,
  \* WebSocketManager fields
  state,                  \* stateMachine._state
  ws,                     \* "null", or the held socket's readyState
  connectionTimeoutId,    \* TRUE: the connection-timeout timer is armed
  reconnectTimeoutId,     \* TRUE: the reconnect-delay timer is armed
  reconnectAttempt,
  intentionalDisconnect,
  pending,                \* who awaits the promise the socket handlers hold
  \* Heartbeat fields
  running,
  intervalId,             \* TRUE: the ping timer intervalId refers to is armed
  timeoutId,              \* TRUE: the deadline timer timeoutId refers to is armed
  staleInterval,          \* armed ping timers no field refers to any more
  staleTimeout,           \* armed deadline timers no field refers to any more
  \* SubscriptionManager
  subscriptions,          \* channel -> "absent" | "unconfirmed" | "confirmed"
  \* observation of the wire and of the last task
  acked,                  \* 'connected' was received on the held connection
  step,                   \* the task that ran last
  result,                 \* what the last task returned, threw or settled
  emitted,                \* events the manager emitted during the last task
  sent,                   \* frames handed to the socket during the last task
  called,                 \* subscription callbacks invoked during the last task
  chan,                   \* the channel the last task was about, if any
  refused,                \* the state machine refused a transition the manager
                          \* requested during the last task
  doubled,                \* the last task created a socket while one was held
  invoked,                \* times the application's listener ran in the last task
  torn,                   \* the socket torn down last, while it can still raise
                          \* events: are its handlers "detached" or "attached";
                          \* "none": no such socket; "unwatched": not followed
  disconnectCalled,       \* disconnect() was called and connect() not since
  destroyed,
  episode,                \* "lost": an established connection was lost and the
                          \* application has made no connect/disconnect/destroy
                          \* call and no connection was established since
  loopAttempts,           \* sockets the reconnect timer opened in this episode
  maxErrors,              \* 'max attempts' errors emitted in this episode
  \* stand-alone ConnectionStateMachine
  smState, listeners, notified, returned, smCall,
  logged,                 \* observers whose exception the last call caught
  \* stand-alone Heartbeat with a clock
  clock,                  \* the time, in units of which the delays are multiples
  hb,                     \* the Heartbeat's fields; a timer field holds the time
                          \* the timer it refers to is due, Null if none is armed
  hbStep,                 \* the call or timer that ran last
  hbObs,                  \* when start() and receivedPong() were last called,
                          \* and what ran since
  \* one call of retry(fn, options)
  rt,                     \* the call's options, locals and what it has done
  rtStep,                 \* the step of the call that ran last
  \* one call of calculateBackoff(attempt, options)
  bo,                     \* the arguments, the jitter draw and the result
  \* the facade's subscriptions, each subscribe() call told apart
  sb,                     \* the registry by call, the handles and the callbacks
  \* a listener of the application that calls back into the client
  hook                    \* the event it listens to and the call it makes

mgrVars == <<state, ws, connectionTimeoutId, reconnectTimeoutId, reconnectAttempt,
             intentionalDisconnect, pending, running, intervalId, timeoutId,
             staleInterval, staleTimeout, subscriptions, acked,
             result, emitted, sent, called, chan, refused,
             doubled, invoked, torn>>
cfgVars == <<autoReconnect, maxReconnectAttempts>>
obsVars == <<step, disconnectCalled, destroyed, episode, loopAttempts, maxErrors>>
smVars == <<smState, listeners, notified, returned, smCall, logged>>
hbVars == <<clock, hb, hbStep, hbObs>>
utilVars == <<rt, rtStep, bo>>
extVars == <<sb, hook>>
vars == <<cfgVars, mgrVars, obsVars, smVars, hbVars, utilVars, extVars>>

\* The fields an operation reads and writes, as one record.
Cur ==
  [ state |-> state, ws |-> ws,
    connectionTimeoutId |-> connectionTimeoutId,
    reconnectTimeoutId |-> reconnectTimeoutId,
    reconnectAttempt |-> reconnectAttempt,
    intentionalDisconnect |-> intentionalDisconnect,
    pending |-> pending,
    running |-> running, intervalId |-> intervalId, timeoutId |-> timeoutId,
    staleInterval |-> staleInterval, staleTimeout |-> staleTimeout,
    subscriptions |-> subscriptions, acked |-> acked,
    result |-> [kind |-> "none", err |-> NoErr, origin |-> "none"],
    emitted |-> <<>>, sent |-> <<>>, called |-> <<>>, chan |-> EmptyName,
    refused |-> FALSE, doubled |-> FALSE, invoked |-> 0, torn |-> torn ]

Commit(m) ==
  /\ m.staleInterval + m.staleTimeout <= MaxStale
  /\ m.reconnectAttempt <= MaxAttempt
  /\ state' = m.state
  /\ ws' = m.ws
  /\ connectionTimeoutId' = m.connectionTimeoutId
  /\ reconnectTimeoutId' = m.reconnectTimeoutId
  /\ reconnectAttempt' = m.reconnectAttempt
  /\ intentionalDisconnect' = m.intentionalDisconnect
  /\ pending' = m.pending
  /\ running' = m.running
  /\ intervalId' = m.intervalId
  /\ timeoutId' = m.timeoutId
  /\ staleInterval' = m.staleInterval
  /\ staleTimeout' = m.staleTimeout
  /\ subscriptions' = m.subscriptions
  /\ acked' = m.acked
  /\ result' = m.result
  /\ emitted' = m.emitted
  /\ sent' = m.sent
  /\ called' = m.called
  /\ chan' = m.chan
  /\ refused' = m.refused
  /\ doubled' = m.doubled
  /\ invoked' = m.invoked
  /\ torn' = m.torn

\* the application's listener, defined with the calls it makes
RECURSIVE Invoke(_)

\* this.stateMachine.transition(to), as the manager calls it: the return
\* value is not looked at
\* The listeners run inside the call, after _state is set.
StateTransition(m, to) ==
  LET n == [m EXCEPT !.state = Transition(@, to),
                     !.refused = @ \/ ~TransitionOk(m.state, to)]
  IN IF TransitionNotifies(m.state, to) /\ hook.on = "state" /\ hook.arg = to
     THEN Invoke(n) ELSE n

\* emit(type, ...): the client relays the manager's event to its own
\* listeners inside the call
Emit(m, type, err) ==
  LET n == [m EXCEPT !.emitted = Append(@, Ev(type, err))]
  IN IF hook.on = "event" /\ hook.arg = type THEN Invoke(n) ELSE n


\* --------------------------------------------------------------- Heartbeat
\* scheduleNextPing(): a new ping timer; one still armed is overwritten, not cleared
HbScheduleNextPing(m) ==
  IF ~m.running THEN m
  ELSE [m EXCEPT !.staleInterval = IF m.intervalId THEN @ + 1 ELSE @,
                 !.intervalId = TRUE]

\* start()
HbStart(m) ==
  IF m.running THEN m ELSE HbScheduleNextPing([m EXCEPT !.running = TRUE])

\* clearTimers(): clears the two timers the fields refer to
HbClearTimers(m) == [m EXCEPT !.intervalId = FALSE, !.timeoutId = FALSE]

\* stop()
HbStop(m) == HbClearTimers([m EXCEPT !.running = FALSE])

\* receivedPong()
HbReceivedPong(m) ==
  IF ~m.running THEN m ELSE HbScheduleNextPing([m EXCEPT !.timeoutId = FALSE])

\* the ping timer's callback, after onPing(): a new deadline timer
HbArmDeadline(m) ==
  [m EXCEPT !.staleTimeout = IF m.timeoutId THEN @ + 1 ELSE @,
            !.timeoutId = TRUE]

\* -------------------------------------------------------- WebSocketManager
\* send(): TRUE iff a socket is held and open
SendOk(m) == m.ws = "open"

Frame(type, channel) == [type |-> type, channel |-> channel]

\* send(message): hands the frame to the socket iff send() returns true
Send(m, frame) ==
  IF SendOk(m) THEN [m EXCEPT !.sent = Append(@, frame)] ELSE m

\* send(message) not looking at the socket's readyState
SendCall_AnySocket(m, frame, throws) ==
  IF m.ws # "null" /\ ~throws
  THEN [m EXCEPT !.sent = Append(@, frame), !.result = Returned("true")]
  ELSE [m EXCEPT !.result = Returned("false")]

\* send(message) as its caller sees it.  throws: JSON.stringify or ws.send
\* raises inside the try block, which the catch turns into `false`.
SendCall(m, frame, throws) ==
  IF SendOk(m) /\ ~throws
  THEN [Send(m, frame) EXCEPT !.result = Returned("true")]
  ELSE [m EXCEPT !.result = Returned("false")]

\* subscribe(channel): a subscribe frame through send()
SendSubscribe(m, c) == Send(m, Frame("subscribe", c))

\* unsubscribe(channel): an unsubscribe frame through send()
SendUnsubscribe(m, c) == Send(m, Frame("unsubscribe", c))

\* sendPing()
SendPing(m) == Send(m, Frame("ping", 0))

\* clearConnectionTimeout()
ClearConnectionTimeout(m) == [m EXCEPT !.connectionTimeoutId = FALSE]

\* clearReconnectTimeout()
ClearReconnectTimeout(m) == [m EXCEPT !.reconnectTimeoutId = FALSE]

\* cleanup() forgetting the subscriptions with the socket
Cleanup_DropsSubscriptions(m) ==
  [HbStop(ClearConnectionTimeout(m))
     EXCEPT !.ws = "null", !.subscriptions = [c \in Names |-> "absent"]]

\* cleanup() closing the socket with its four handlers left in place
DetachHandlers_KeepsHandlers(m) ==
  IF m.torn = "unwatched" THEN m ELSE [m EXCEPT !.torn = "attached"]

\* cleanup(): ws.onopen = ws.onclose = ws.onerror = ws.onmessage = null
DetachHandlers(m) ==
  IF m.torn = "unwatched" THEN m ELSE [m EXCEPT !.torn = "detached"]

\* cleanup(): connection timeout, heartbeat, socket handlers and socket
Cleanup(m) ==
  LET h == HbStop(ClearConnectionTimeout(m))
  IN IF m.ws = "null" THEN h ELSE [DetachHandlers(h) EXCEPT !.ws = "null"]

\* scheduleReconnect()
ScheduleReconnect(m) ==
  IF m.intentionalDisconnect THEN m
  ELSE IF maxReconnectAttempts > 0 /\ m.reconnectAttempt >= maxReconnectAttempts
  THEN Emit(StateTransition(m, "error"), "error", MaxAttemptsError)
  ELSE [m EXCEPT !.reconnectTimeoutId = TRUE]

\* PushFloClient.connect, after `await wsManager.connect()`: the replay
RECURSIVE SubscribeAll(_, _)
SubscribeAll(m, chs) ==
  IF chs = {} THEN m
  ELSE LET c == CHOOSE x \in chs : TRUE
       IN SubscribeAll(SendSubscribe(m, c), chs \ {c})

\* SubscriptionManager.getChannels()
GetChannels(m) == {c \in Names : m.subscriptions[c] # "absent"}

\* SubscriptionManager.resetConfirmations()
ResetConfirmations(m) ==
  [m EXCEPT !.subscriptions =
     [c \in Names |-> IF @[c] = "confirmed" THEN "unconfirmed" ELSE @[c]]]

\* SubscriptionManager.has(channel)
Has(m, c) == m.subscriptions[c] # "absent"

\* the callback `name` of channel c's entry is invoked
Call(m, name, c) == [m EXCEPT !.called = Append(@, <<name, c>>)]

\* SubscriptionManager.add(channel, options)
Add(m, c) == [m EXCEPT !.subscriptions[c] = "unconfirmed"]

\* remove(channel) taking the entry out without telling its owner
Remove_Silent(m, c) ==
  IF Has(m, c) THEN [m EXCEPT !.subscriptions[c] = "absent"] ELSE m

\* SubscriptionManager.remove(channel); it returns Has(m, c)
Remove(m, c) ==
  IF Has(m, c)
  THEN Call([m EXCEPT !.subscriptions[c] = "absent"], "onUnsubscribed", c)
  ELSE m

\* SubscriptionManager.confirm(channel)
Confirm(m, c) ==
  IF Has(m, c)
  THEN Call([m EXCEPT !.subscriptions[c] = "confirmed"], "onSubscribed", c)
  ELSE m

\* handleMessage(message) handing the message to every entry
HandleMessage_Broadcast(m, c) == Call(m, "onMessage", c)

\* SubscriptionManager.handleMessage(message), message.channel = c
HandleMessage(m, c) == IF Has(m, c) THEN Call(m, "onMessage", c) ELSE m

\* SubscriptionManager.handleError(channel, error)
HandleError(m, c) == IF Has(m, c) THEN Call(m, "onError", c) ELSE m

\* SubscriptionManager.clear(): onUnsubscribed of every entry, then the map
\* is emptied.  (The map iterates in insertion order; the order is not kept
\* here.)
RECURSIVE CallAll(_, _, _)
CallAll(m, name, chs) ==
  IF chs = {} THEN m
  ELSE LET c == CHOOSE x \in chs : TRUE
       IN CallAll(Call(m, name, c), name, chs \ {c})

Clear(m) ==
  [CallAll(m, "onUnsubscribed", GetChannels(m))
     EXCEPT !.subscriptions = [c \in Names |-> "absent"]]

\* the replay stopping after the first channel
Resubscribe_FirstOnly(m) ==
  IF GetChannels(m) # {}
  THEN SubscribeAll(ResetConfirmations(m), {CHOOSE c \in GetChannels(m) : TRUE})
  ELSE m

Resubscribe(m) ==
  IF GetChannels(m) # {}
  THEN SubscribeAll(ResetConfirmations(m), GetChannels(m))
  ELSE m

\* What runs when the promise of establishConnection() is settled: nothing if
\* it was settled before; PushFloClient.connect's continuation for an
\* application connect that resolved; the catch handler of the reconnect
\* timer's callback for a reconnect attempt that was rejected.
Settle(m, kind, err) ==
  IF m.pending = "none" THEN m
  ELSE LET n == [m EXCEPT !.pending = "none",
                          !.result = [kind |-> kind, err |-> err, origin |-> m.pending]]
       IN IF m.pending = "app" /\ kind = "resolved" THEN Resubscribe(n)
          ELSE IF m.pending = "loop" /\ kind = "rejected" THEN ScheduleReconnect(n)
          ELSE n

\* The handlers that could settle the promise are gone: it stays pending.
Abandon(m) ==
  IF m.pending = "none" THEN m
  ELSE [m EXCEPT !.pending = "none",
                 !.result = [kind |-> "abandoned", err |-> NoErr, origin |-> m.pending]]

\* establishConnection(): a new socket and a new connection-timeout timer
EstablishConnection(m, origin) ==
  [StateTransition(m, "connecting") EXCEPT
            !.doubled = @ \/ (StateTransition(m, "connecting").ws # "null"),
            !.ws = "connecting",
            !.connectionTimeoutId = TRUE,
            !.pending = origin,
            !.result = [kind |-> "pending", err |-> NoErr, origin |-> origin],
            !.acked = FALSE]

\* connect() without the 'connection in progress' check
ManagerConnect_NoProgressCheck(m) ==
  IF m.state = "connected"
  THEN [m EXCEPT !.result = [kind |-> "rejected", err |-> AlreadyConnected, origin |-> "app"]]
  ELSE EstablishConnection(
         ClearReconnectTimeout([m EXCEPT !.intentionalDisconnect = FALSE]), "app")

\* connect()
ManagerConnect(m) ==
  IF m.state = "connected"
  THEN [m EXCEPT !.result = [kind |-> "rejected", err |-> AlreadyConnected, origin |-> "app"]]
  ELSE IF m.state = "connecting"
  THEN [m EXCEPT !.result = [kind |-> "rejected", err |-> ConnectionInProgress, origin |-> "app"]]
  ELSE EstablishConnection(
         ClearReconnectTimeout([m EXCEPT !.intentionalDisconnect = FALSE]), "app")

\* disconnect()
ManagerDisconnect(m) ==
  LET a == Abandon(Cleanup([m EXCEPT !.intentionalDisconnect = TRUE]))
  IN Emit(StateTransition(a, "disconnected"), "disconnected", NoErr)

\* destroy()
ManagerDestroy(m) == Abandon(Cleanup([m EXCEPT !.intentionalDisconnect = TRUE]))

\* handleConnected() leaving the connection-timeout timer armed
HandleConnected_KeepsTimer(m) ==
  LET b == StateTransition([m EXCEPT !.reconnectAttempt = 0, !.acked = TRUE],
                           "connected")
  IN Settle(Emit(HbStart(b), "connected", NoErr), "resolved", NoErr)

\* handleConnected()
HandleConnected(m) ==
  LET a == ClearConnectionTimeout(m)
      b == StateTransition([a EXCEPT !.reconnectAttempt = 0, !.acked = TRUE],
                           "connected")
  IN Settle(Emit(HbStart(b), "connected", NoErr), "resolved", NoErr)

\* handleErrorMessage() failing the connection in whatever state it is
HandleErrorMessage_AlwaysFails(m, code) ==
  LET e == Emit(m, "error", ServerError(code))
  IN Settle(StateTransition(Cleanup(e), "error"),
            "rejected", ServerError(code))

\* handleErrorMessage()
HandleErrorMessage(m, code) ==
  LET e == Emit(m, "error", ServerError(code))
  IN IF e.state = "connecting"
     THEN Settle(StateTransition(Cleanup(e), "error"),
                 "rejected", ServerError(code))
     ELSE e

\* handleClose()
\* handleClose() scheduling a reconnect after a failed attempt as well
HandleClose_Reschedules(m) ==
  LET wasConnected == m.state = "connected"
      c == Cleanup(m)
  IN IF c.intentionalDisconnect
     THEN Abandon(StateTransition(c, "disconnected"))
     ELSE IF c.state = "connecting"
     THEN ScheduleReconnect(
            Settle(Emit(StateTransition(c, "error"), "error", FailedError),
                   "rejected", FailedError))
     ELSE LET d == Emit(StateTransition(c, "disconnected"),
                        "disconnected", NoErr)
          IN IF wasConnected /\ autoReconnect THEN ScheduleReconnect(d) ELSE d

\* handleClose(event)
HandleClose(m) ==
  LET wasConnected == m.state = "connected"
      c == Cleanup(m)
  IN IF c.intentionalDisconnect
     THEN Abandon(StateTransition(c, "disconnected"))
     ELSE IF c.state = "connecting"
     THEN Settle(Emit(StateTransition(c, "error"), "error", FailedError),
                 "rejected", FailedError)
     ELSE LET d == Emit(StateTransition(c, "disconnected"),
                        "disconnected", NoErr)
          IN IF wasConnected /\ autoReconnect THEN ScheduleReconnect(d) ELSE d

\* handleHeartbeatTimeout()
HandleHeartbeatTimeout(m) ==
  LET d == Emit(StateTransition(Abandon(Cleanup(m)), "disconnected"),
                "disconnected", NoErr)
  IN IF autoReconnect THEN ScheduleReconnect(d) ELSE d

\* the connection-timeout timer's callback
ConnectionTimeoutCallback(m) ==
  IF m.state = "connecting"
  THEN Settle(Emit(StateTransition(Cleanup(m), "error"),
                   "error", TimeoutError),
              "rejected", TimeoutError)
  ELSE m

\* the reconnect timer's callback
ReconnectCallback(m) ==
  EstablishConnection([m EXCEPT !.reconnectAttempt = @ + 1], "loop")

\* ------------------------------- a listener that calls into the client
\* on "state": a listener given to onConnectionChange() that acts when the
\* new state is arg; on "event": a listener given to on(arg, ...).
Hook(on, arg, call, channel) ==
  [on |-> on, arg |-> arg, call |-> call, channel |-> channel]

NoHook == Hook("none", "none", "none", EmptyName)

\* the listeners looked at
Hooks ==
  {Hook("event", "disconnected", "connect", EmptyName),
   Hook("state", "connecting", "disconnect", EmptyName)}
  \cup {Hook("event", "connected", "subscribe", c) : c \in Channels}
  \cup {Hook("state", "connected", "subscribe", c) : c \in Channels}

\* ------------------------------------------ subscriptions told apart
\* An entry of the registry holds the options object of one subscribe()
\* call; calls are numbered from 1 and NoEntry stands for no entry.
NoEntry == 0

NoSubs ==
  [chanOf |-> <<>>,                          \* the channel each call named
   entries |-> [c \in Channels |-> NoEntry],  \* channel -> the call whose entry it holds
   unsubscribed |-> [i \in 1..MaxSubs |-> 0], \* invocations of each call's onUnsubscribed
   step |-> "none", chan |-> EmptyName,
   handle |-> 0,                             \* the handle made or used by the last task
   prev |-> NoEntry,                         \* the entry of chan before the last task
   called |-> <<>>]                          \* callbacks the last task invoked

\* SubscriptionManager.add(channel, options): Map.set
SbAdd(es, c, id) == [es EXCEPT ![c] = id]

\* SubscriptionManager.remove(channel): Map.delete
SbRemove(es, c) == [es EXCEPT ![c] = NoEntry]

\* ------------------------------------------------------------------- Init
\* maxReconnectAttempts is 0 (no ceiling, the default) or the ceiling; it is
\* read by scheduleReconnect() only, which runs only with autoReconnect on.
Init ==
  /\ autoReconnect \in BOOLEAN
  /\ maxReconnectAttempts \in IF autoReconnect THEN {0, MaxCeiling} ELSE {0}
  /\ state = "disconnected"
  /\ ws = "null"
  /\ connectionTimeoutId = FALSE
  /\ reconnectTimeoutId = FALSE
  /\ reconnectAttempt = 0
  /\ intentionalDisconnect = FALSE
  /\ pending = "none"
  /\ running = FALSE
  /\ intervalId = FALSE
  /\ timeoutId = FALSE
  /\ staleInterval = 0
  /\ staleTimeout = 0
  /\ subscriptions = [c \in Names |-> "absent"]
  /\ acked = FALSE
  /\ step = "init"
  /\ result = [kind |-> "none", err |-> NoErr, origin |-> "none"]
  /\ emitted = <<>>
  /\ sent = <<>>
  /\ called = <<>>
  /\ chan = EmptyName
  /\ refused = FALSE
  /\ doubled = FALSE
  /\ invoked = 0
  /\ torn = "unwatched"
  /\ disconnectCalled = FALSE
  /\ destroyed = FALSE
  /\ episode = "none"
  /\ loopAttempts = 0
  /\ maxErrors = 0
  /\ smState = "disconnected"
  /\ listeners = <<>>
  /\ notified = <<>>
  /\ returned = "none"
  /\ smCall = [op |-> "none", arg |-> "none"]
  /\ logged = <<>>
  /\ clock = 0
  /\ hb = [interval |-> 0, pongTimeout |-> 0, running |-> FALSE,
           intervalId |-> Null, timeoutId |-> Null, stale |-> <<>>, calls |-> <<>>]
  /\ hbStep = "none"
  /\ hbObs = NoObs
  /\ rt = NoRetry
  /\ rtStep = "none"
  /\ bo = NoBackoff
  /\ sb = NoSubs
  /\ hook = NoHook

\* A task of the manager: it commits m and records its name.
CountMaxErrors(evs) ==
  Cardinality({i \in 1..Len(evs) : evs[i] = Ev("error", MaxAttemptsError)})

Task(name, m) ==
  /\ Commit(m)
  /\ step' = name
  /\ episode' = IF name \in {"connect", "disconnect", "destroy", "connected"} THEN "none"
                ELSE IF name \in {"lost", "heartbeatTimeout"} THEN "lost"
                ELSE episode
  /\ loopAttempts' = IF episode' = "none" \/ name \in {"lost", "heartbeatTimeout"} THEN 0
                     ELSE IF name = "reconnect" THEN loopAttempts + 1
                     ELSE loopAttempts
  /\ maxErrors' = IF episode' = "none" THEN 0
                  ELSE (IF name \in {"lost", "heartbeatTimeout"} THEN 0 ELSE maxErrors)
                       + CountMaxErrors(m.emitted)
  /\ UNCHANGED <<cfgVars, smVars, hbVars, utilVars, extVars>>

\* ------------------------------------------------------ application calls
\* PushFloClient.connect()
Connect ==
  /\ ~destroyed
  /\ Task("connect", ManagerConnect(Cur))
  /\ disconnectCalled' = FALSE
  /\ UNCHANGED destroyed

\* PushFloClient.disconnect()
Disconnect ==
  /\ ~destroyed
  /\ Task("disconnect", ManagerDisconnect(Cur))
  /\ disconnectCalled' = TRUE
  /\ UNCHANGED destroyed

\* PushFloClient.destroy(): subscriptions.clear(), then wsManager.destroy()
Destroy ==
  /\ ~destroyed
  /\ Task("destroy", ManagerDestroy(Clear(Cur)))
  /\ destroyed' = TRUE
  /\ UNCHANGED disconnectCalled

\* subscribe(channel) registering and sending before it looks at the name
ClientSubscribe_ValidatesLast(m, c) ==
  LET a == Add(m, c)
      b == IF a.state = "connected" THEN SendSubscribe(a, c) ELSE a
  IN IF c = EmptyName THEN [b EXCEPT !.result = Threw(InvalidChannel)]
     ELSE [b EXCEPT !.result = Returned("handle")]

\* PushFloClient.subscribe(channel, options)
ClientSubscribe(m, c) ==
  IF c = EmptyName THEN [m EXCEPT !.result = Threw(InvalidChannel)]
  ELSE LET a == Add(m, c)
           b == IF a.state = "connected" THEN SendSubscribe(a, c) ELSE a
       IN [b EXCEPT !.result = Returned("handle")]

\* The application's listener runs: it calls connect(), whose promise it
\* leaves to PushFloClient.connect's continuation, or disconnect(), or
\* subscribe(channel).
Invoke(m) ==
  LET n == [m EXCEPT !.invoked = @ + 1]
  IN IF hook.call = "connect" THEN ManagerConnect(n)
     ELSE IF hook.call = "disconnect" THEN ManagerDisconnect(n)
     ELSE IF hook.call = "subscribe" THEN ClientSubscribe(n, hook.channel)
     ELSE n

\* unsubscribe(channel) leaving the entry in the registry
ClientUnsubscribe_KeepsEntry(m, c) ==
  IF m.state = "connected" THEN SendUnsubscribe(m, c) ELSE m

\* PushFloClient.unsubscribe(channel)
ClientUnsubscribe(m, c) ==
  LET a == Remove(m, c)
  IN IF a.state = "connected" THEN SendUnsubscribe(a, c) ELSE a

\* PushFloClient.handleServerMessage(message) for the frame types it acts on.
\* nested: the frame carries the `message` object whose fields the handler
\* copies; the frames WsServerMessage declares carry messageId, eventType and
\* data beside the channel and no such object.
HandleServerMessage(m, type, c, nested) ==
  IF type = "subscribed" /\ c # EmptyName THEN Confirm(m, c)
  ELSE IF type = "message" /\ c # EmptyName /\ nested
  THEN Emit(HandleMessage(m, c), "clientMessage", NoErr)
  ELSE m

\* event.data of an inbound frame: text that JSON.parse accepts and what it
\* parses to, or text JSON.parse throws a SyntaxError for
Json(type, c, nested, code) ==
  [json |-> TRUE, type |-> type, channel |-> c, nested |-> nested, code |-> code]
NotJson == [json |-> FALSE, type |-> "none", channel |-> EmptyName,
            nested |-> FALSE, code |-> "none"]

\* handleMessage() treating text that does not parse as a failed connection
ManagerHandleMessage_FailsOnGarbage(m, data) ==
  IF ~data.json THEN Cleanup(Emit(m, "error", FailedError))
  ELSE IF data.type = "connected" THEN HandleConnected(m)
  ELSE IF data.type = "pong" THEN HbReceivedPong(m)
  ELSE IF data.type = "error" THEN HandleErrorMessage(m, data.code)
  ELSE HandleServerMessage(Emit([m EXCEPT !.chan = data.channel], "message", NoErr),
                           data.type, data.channel, data.nested)

\* WebSocketManager.handleMessage(event), with the client's 'message'
\* listener: JSON.parse throws inside the try, the catch logs and returns
ManagerHandleMessage(m, data) ==
  IF ~data.json THEN m
  ELSE IF data.type = "connected" THEN HandleConnected(m)
  ELSE IF data.type = "pong" THEN HbReceivedPong(m)
  ELSE IF data.type = "error" THEN HandleErrorMessage(m, data.code)
  ELSE HandleServerMessage(Emit([m EXCEPT !.chan = data.channel], "message", NoErr),
                           data.type, data.channel, data.nested)

Subscribe(c) ==
  /\ ~destroyed
  /\ Task("subscribe", ClientSubscribe([Cur EXCEPT !.chan = c], c))
  /\ UNCHANGED <<disconnectCalled, destroyed>>

Unsubscribe(c) ==
  /\ ~destroyed
  /\ Task("unsubscribe", ClientUnsubscribe([Cur EXCEPT !.chan = c], c))
  /\ UNCHANGED <<disconnectCalled, destroyed>>

\* ------------------------------------------------------- transport events
\* ws.onopen: the socket is open; the handler only logs
WsOpen ==
  /\ ws = "connecting"
  /\ Task("open", [Cur EXCEPT !.ws = "open"])
  /\ UNCHANGED <<disconnectCalled, destroyed>>

\* ws.onmessage with a 'connected' frame
RecvConnected ==
  /\ ws = "open"
  /\ Task("connected", ManagerHandleMessage(Cur, Json("connected", EmptyName, FALSE, "none")))
  /\ UNCHANGED <<disconnectCalled, destroyed>>

\* ws.onmessage with a 'pong' frame
RecvPong ==
  /\ ws = "open"
  /\ Task("pong", ManagerHandleMessage(Cur, Json("pong", EmptyName, FALSE, "none")))
  /\ UNCHANGED <<disconnectCalled, destroyed>>

\* ws.onmessage with an 'error' frame
RecvError(code) ==
  /\ ws = "open"
  /\ Task(IF code \in AuthCodes THEN "authError" ELSE "serverError",
          ManagerHandleMessage(Cur, Json("error", EmptyName, FALSE, code)))
  /\ UNCHANGED <<disconnectCalled, destroyed>>

\* ws.onmessage with a 'subscribed' frame: forwarded to the facade
\* a frame whose text is not JSON
RecvUnparseable ==
  /\ ws = "open"
  /\ Task("unparseable", ManagerHandleMessage(Cur, NotJson))
  /\ UNCHANGED <<disconnectCalled, destroyed>>

RecvSubscribed(c) ==
  /\ ws = "open"
  /\ Task("subscribed", ManagerHandleMessage(Cur, Json("subscribed", c, FALSE, "none")))
  /\ UNCHANGED <<disconnectCalled, destroyed>>

\* ws.onmessage with a 'message' frame for channel c: forwarded to the facade
RecvMessage(c, nested) ==
  /\ ws = "open"
  /\ Task("message", ManagerHandleMessage(Cur, Json("message", c, nested, "none")))
  /\ UNCHANGED <<disconnectCalled, destroyed>>

\* ws.onclose: the held socket closed, or failed to open
WsClose ==
  /\ ws # "null"
  /\ Task(IF state = "connected" THEN "lost" ELSE "close", HandleClose(Cur))
  /\ UNCHANGED <<disconnectCalled, destroyed>>

\* ----------------------------------------------------------------- timers
ConnectionTimeout ==
  /\ connectionTimeoutId
  /\ Task("connectionTimeout",
          ConnectionTimeoutCallback([Cur EXCEPT !.connectionTimeoutId = FALSE]))
  /\ UNCHANGED <<disconnectCalled, destroyed>>

ReconnectTimer ==
  /\ reconnectTimeoutId
  /\ Task("reconnect", ReconnectCallback([Cur EXCEPT !.reconnectTimeoutId = FALSE]))
  /\ UNCHANGED <<disconnectCalled, destroyed>>

\* the callback of a ping timer: onPing(), then the deadline timer
PingCallback(m) == IF m.running THEN HbArmDeadline(SendPing(m)) ELSE m

\* the callback of a deadline timer: onTimeout() is handleHeartbeatTimeout()
DeadlineCallback(m) == IF m.running THEN HandleHeartbeatTimeout(m) ELSE m

\* the ping timer intervalId refers to fires
PingTimer ==
  /\ intervalId
  /\ Task("ping", PingCallback([Cur EXCEPT !.intervalId = FALSE]))
  /\ UNCHANGED <<disconnectCalled, destroyed>>

\* a ping timer that was overwritten while armed fires
StalePingTimer ==
  /\ staleInterval > 0
  /\ Task("ping", PingCallback([Cur EXCEPT !.staleInterval = @ - 1]))
  /\ UNCHANGED <<disconnectCalled, destroyed>>

\* the deadline timer timeoutId refers to fires
PongDeadline ==
  /\ timeoutId
  /\ Task(IF running THEN "heartbeatTimeout" ELSE "deadline",
          DeadlineCallback([Cur EXCEPT !.timeoutId = FALSE]))
  /\ UNCHANGED <<disconnectCalled, destroyed>>

\* a deadline timer that was overwritten while armed fires
StalePongDeadline ==
  /\ staleTimeout > 0
  /\ Task(IF running THEN "heartbeatTimeout" ELSE "deadline",
          DeadlineCallback([Cur EXCEPT !.staleTimeout = @ - 1]))
  /\ UNCHANGED <<disconnectCalled, destroyed>>

Next ==
  \/ Connect
  \/ Disconnect
  \/ Destroy
  \/ \E c \in Names : Subscribe(c)
  \/ \E c \in Channels : Unsubscribe(c)
  \/ WsOpen
  \/ RecvConnected
  \/ RecvPong
  \/ \E code \in ServerCodes : RecvError(code)
  \/ \E c \in Channels : RecvSubscribed(c)
  \/ \E c \in Channels, nested \in BOOLEAN : RecvMessage(c, nested)
  \/ RecvUnparseable
  \/ WsClose
  \/ ConnectionTimeout
  \/ ReconnectTimer
  \/ PingTimer
  \/ StalePingTimer
  \/ PongDeadline
  \/ StalePongDeadline

Spec == Init /\ [][Next]_vars

\* ----------------------------------- the WebSocketManager used on its own
\* The application holds the manager itself and calls send(), subscribe()
\* and unsubscribe() in any state.  No facade call registers a channel, so
\* the registry stays empty and Connect, Disconnect and Destroy are the
\* manager's connect(), disconnect() and destroy().
WsmSend(type, throws) ==
  /\ Task("send", SendCall(Cur, Frame(type, EmptyName), throws))
  /\ UNCHANGED <<disconnectCalled, destroyed>>

WsmSubscribe(c, throws) ==
  /\ Task("wsmSubscribe",
          SendCall([Cur EXCEPT !.chan = c], Frame("subscribe", c), throws))
  /\ UNCHANGED <<disconnectCalled, destroyed>>

WsmUnsubscribe(c, throws) ==
  /\ Task("wsmUnsubscribe",
          SendCall([Cur EXCEPT !.chan = c], Frame("unsubscribe", c), throws))
  /\ UNCHANGED <<disconnectCalled, destroyed>>

NextWS ==
  \/ Connect
  \/ Disconnect
  \/ Destroy
  \/ \E type \in {"ping", "ack"}, throws \in BOOLEAN : WsmSend(type, throws)
  \/ \E c \in Channels, throws \in BOOLEAN : WsmSubscribe(c, throws)
  \/ \E c \in Channels, throws \in BOOLEAN : WsmUnsubscribe(c, throws)
  \/ WsOpen
  \/ RecvConnected
  \/ RecvPong
  \/ \E code \in ServerCodes : RecvError(code)
  \/ RecvUnparseable
  \/ WsClose
  \/ ConnectionTimeout
  \/ ReconnectTimer
  \/ PingTimer
  \/ StalePingTimer
  \/ PongDeadline
  \/ StalePongDeadline

SpecWS == Init /\ [][NextWS]_vars

\* The manager on its own with timers that fire: a timer armed by setTimeout
\* or setInterval and not cleared runs its callback.  Nothing is assumed of
\* the application or of the server and the network.
TimersFire ==
  /\ WF_vars(ConnectionTimeout)
  /\ WF_vars(ReconnectTimer)
  /\ WF_vars(PingTimer)
  /\ WF_vars(StalePingTimer)
  /\ WF_vars(PongDeadline)
  /\ WF_vars(StalePongDeadline)

SpecWSFair == Init /\ [][NextWS]_vars /\ TimersFire

\* ---------------------------------- the SubscriptionManager on its own
\* The registry does not look at the channel name: the empty name is a key
\* like any other.
RegistryAdd(c) ==
  /\ Task("add", [Add([Cur EXCEPT !.chan = c], c) EXCEPT !.result = Returned("void")])
  /\ UNCHANGED <<disconnectCalled, destroyed>>

RegistryRemove(c) ==
  /\ Task("remove",
          [Remove([Cur EXCEPT !.chan = c], c)
             EXCEPT !.result = Returned(IF Has(Cur, c) THEN "true" ELSE "false")])
  /\ UNCHANGED <<disconnectCalled, destroyed>>

RegistryConfirm(c) ==
  /\ Task("confirm",
          [Confirm([Cur EXCEPT !.chan = c], c) EXCEPT !.result = Returned("void")])
  /\ UNCHANGED <<disconnectCalled, destroyed>>

RegistryHandleMessage(c) ==
  /\ Task("handleMessage",
          [HandleMessage([Cur EXCEPT !.chan = c], c) EXCEPT !.result = Returned("void")])
  /\ UNCHANGED <<disconnectCalled, destroyed>>

RegistryHandleError(c) ==
  /\ Task("handleError",
          [HandleError([Cur EXCEPT !.chan = c], c) EXCEPT !.result = Returned("void")])
  /\ UNCHANGED <<disconnectCalled, destroyed>>

RegistryResetConfirmations ==
  /\ Task("resetConfirmations",
          [ResetConfirmations(Cur) EXCEPT !.result = Returned("void")])
  /\ UNCHANGED <<disconnectCalled, destroyed>>

RegistryClear ==
  /\ Task("clear", [Clear(Cur) EXCEPT !.result = Returned("void")])
  /\ UNCHANGED <<disconnectCalled, destroyed>>

NextReg ==
  \/ \E c \in Names : RegistryAdd(c)
  \/ \E c \in Names : RegistryRemove(c)
  \/ \E c \in Names : RegistryConfirm(c)
  \/ \E c \in Names : RegistryHandleMessage(c)
  \/ \E c \in Names : RegistryHandleError(c)
  \/ RegistryResetConfirmations
  \/ RegistryClear

SpecReg == Init /\ [][NextReg]_vars

\* ------------------------------- the ConnectionStateMachine on its own
\* listeners.forEach without the try/catch: the first observer that throws
\* ends the loop
Notify_Unprotected(ls, to, throwers) ==
  LET bad == {i \in 1..Len(ls) : ls[i] \in throwers}
      last == IF bad = {} THEN Len(ls) ELSE CHOOSE i \in bad : \A j \in bad : i <= j
  IN [i \in 1..last |-> <<ls[i], to>>]

\* listeners.forEach(listener => { try { listener(to) } catch { log } }): one
\* call each, in insertion order, whichever of them throw
Notify(ls, to, throwers) == [i \in 1..Len(ls) |-> <<ls[i], to>>]

\* the exceptions the catch logged
Caught(ls, throwers) == SelectSeq(ls, LAMBDA o : o \in throwers)

InSeq(ls, o) == \E i \in 1..Len(ls) : ls[i] = o

\* Set.delete(listener)
Delete(ls, o) == SelectSeq(ls, LAMBDA x : x # o)

SmCall(op, arg) ==
  /\ smCall' = [op |-> op, arg |-> arg]
  /\ UNCHANGED <<cfgVars, mgrVars, obsVars, hbVars, utilVars, extVars>>

\* transition(to)
SmTransition(to, throwers) ==
  /\ smState' = Transition(smState, to)
  /\ notified' = IF TransitionNotifies(smState, to)
                 THEN Notify(listeners, to, throwers) ELSE <<>>
  /\ logged' = IF TransitionNotifies(smState, to)
               THEN Caught(listeners, throwers) ELSE <<>>
  /\ returned' = IF TransitionOk(smState, to) THEN "true" ELSE "false"
  /\ UNCHANGED listeners
  /\ SmCall("transition", to)

\* forceTransition(to)
SmForceTransition(to, throwers) ==
  /\ smState' = ForceTransition(smState, to)
  /\ notified' = IF smState = to THEN <<>> ELSE Notify(listeners, to, throwers)
  /\ logged' = IF smState = to THEN <<>> ELSE Caught(listeners, throwers)
  /\ returned' = "void"
  /\ UNCHANGED listeners
  /\ SmCall("forceTransition", to)

\* reset()
SmReset(throwers) ==
  /\ smState' = ForceTransition(smState, "disconnected")
  /\ notified' = IF smState = "disconnected" THEN <<>>
                 ELSE Notify(listeners, "disconnected", throwers)
  /\ logged' = IF smState = "disconnected" THEN <<>>
               ELSE Caught(listeners, throwers)
  /\ returned' = "void"
  /\ UNCHANGED listeners
  /\ SmCall("reset", "none")

\* onChange(listener): Set.add keeps the place of a listener already present
SmOnChange(o) ==
  /\ listeners' = IF InSeq(listeners, o) THEN listeners ELSE Append(listeners, o)
  /\ notified' = <<>>
  /\ logged' = <<>>
  /\ returned' = "unsubscribe"
  /\ UNCHANGED smState
  /\ SmCall("onChange", "none")

\* the function onChange(listener) returned
SmUnsubscribe(o) ==
  /\ listeners' = Delete(listeners, o)
  /\ notified' = <<>>
  /\ logged' = <<>>
  /\ returned' = IF InSeq(listeners, o) THEN "true" ELSE "false"
  /\ UNCHANGED smState
  /\ SmCall("unsubscribe", "none")

\* removeAllListeners()
SmRemoveAllListeners ==
  /\ listeners' = <<>>
  /\ notified' = <<>>
  /\ logged' = <<>>
  /\ returned' = "void"
  /\ UNCHANGED smState
  /\ SmCall("removeAllListeners", "none")

NextSM ==
  \/ \E to \in ConnectionState, throwers \in SUBSET Observers :
       SmTransition(to, throwers)
  \/ \E to \in ConnectionState, throwers \in SUBSET Observers :
       SmForceTransition(to, throwers)
  \/ \E throwers \in SUBSET Observers : SmReset(throwers)
  \/ \E o \in Observers : SmOnChange(o)
  \/ \E o \in Observers : SmUnsubscribe(o)
  \/ SmRemoveAllListeners

SpecSM == Init /\ [][NextSM]_vars

\* --------------------------------------------- the Heartbeat on its own
\* Timers fire when their delay has elapsed: the clock does not pass an
\* armed timer.  onPing and onTimeout are the caller's and do not call back
\* into the heartbeat.  A timer that a field was made to forget while armed
\* (the field was overwritten, not cleared) stays armed: it is kept in stale.
Timer(kind, due) == [kind |-> kind, due |-> due]

Forget(stale, kind, id) == IF id # Null THEN Append(stale, Timer(kind, id)) ELSE stale

\* new Heartbeat({interval, pongTimeout, onPing, onTimeout})
TimedNew(interval, pongTimeout) ==
  [interval |-> interval,
   pongTimeout |-> IF pongTimeout # Null THEN pongTimeout ELSE interval * 2,
   running |-> FALSE, intervalId |-> Null, timeoutId |-> Null,
   stale |-> <<>>, calls |-> <<>>]

\* scheduleNextPing(): intervalId = setTimeout(the ping callback, interval)
TimedScheduleNextPing(h) ==
  IF ~h.running THEN h
  ELSE [h EXCEPT !.intervalId = clock + h.interval,
                 !.stale = Forget(@, "ping", h.intervalId)]

\* start() without the `if (this.running) return`
TimedStart_Always(h) == TimedScheduleNextPing([h EXCEPT !.running = TRUE])

\* start()
TimedStart(h) ==
  IF h.running THEN h ELSE TimedScheduleNextPing([h EXCEPT !.running = TRUE])

\* clearTimers()
TimedClearTimers(h) == [h EXCEPT !.intervalId = Null, !.timeoutId = Null]

\* stop()
TimedStop(h) == TimedClearTimers([h EXCEPT !.running = FALSE])

\* receivedPong()
TimedReceivedPong(h) ==
  IF ~h.running THEN h ELSE TimedScheduleNextPing([h EXCEPT !.timeoutId = Null])

\* reset()
TimedReset(h) ==
  IF ~h.running THEN h ELSE TimedScheduleNextPing(TimedClearTimers(h))

\* the ping callback: onPing(), then timeoutId = setTimeout(.., pongTimeout)
TimedPingCallback(h) ==
  IF ~h.running THEN h
  ELSE [h EXCEPT !.calls = Append(@, "onPing"),
                 !.timeoutId = clock + h.pongTimeout,
                 !.stale = Forget(@, "deadline", h.timeoutId)]

\* the deadline callback: onTimeout()
TimedDeadlineCallback(h) ==
  IF h.running THEN [h EXCEPT !.calls = Append(@, "onTimeout")] ELSE h

CurHb == [hb EXCEPT !.calls = <<>>]

Armed(h) ==
  {h.stale[i].due : i \in 1..Len(h.stale)} \cup ({h.intervalId, h.timeoutId} \ {Null})

\* The time of the oldest onPing() that no receivedPong() on the running
\* heartbeat has followed; stop(), and reset() on the running heartbeat,
\* end the wait for it.
Unanswered(name, h) ==
  IF name \in {"new", "stop"} THEN Null
  ELSE IF name \in {"receivedPong", "reset"} /\ hb.running THEN Null
  ELSE IF "onPing" \in Range(h.calls) /\ hbObs.unanswered = Null THEN clock
  ELSE hbObs.unanswered

\* What is observed: the time of the last start() on an idle heartbeat and
\* of the last receivedPong() that found a deadline armed, each until the
\* next call, whether a callback ran since, and the unanswered ping.
Observe(name, h) ==
  LET o == IF name = "start" /\ ~hb.running
           THEN [NoObs EXCEPT !.startAt = clock]
           ELSE IF name = "receivedPong" /\ hb.running /\ hb.timeoutId # Null
           THEN [NoObs EXCEPT !.pongAt = clock]
           ELSE IF name \in {"new", "start", "stop", "receivedPong", "reset"}
           THEN NoObs
           ELSE [hbObs EXCEPT
                   !.pinged = hbObs.startAt # Null /\ (@ \/ "onPing" \in Range(h.calls)),
                   !.timedOut = hbObs.startAt # Null /\ (@ \/ "onTimeout" \in Range(h.calls)),
                   !.pongPinged = hbObs.pongAt # Null /\ (@ \/ "onPing" \in Range(h.calls))]
  IN [o EXCEPT !.unanswered = Unanswered(name, h)]

HbTask(name, h) ==
  /\ Len(h.stale) <= MaxStale
  /\ hb' = h
  /\ hbStep' = name
  /\ hbObs' = Observe(name, h)
  /\ clock' = IF name = "tick" THEN clock + 1 ELSE clock
  /\ UNCHANGED <<cfgVars, mgrVars, obsVars, smVars, utilVars, extVars>>

HbNew(interval, pongTimeout) ==
  /\ hb.interval = 0
  /\ HbTask("new", TimedNew(interval, pongTimeout))

HbStartCall == hb.interval > 0 /\ HbTask("start", TimedStart(CurHb))

HbStopCall == hb.interval > 0 /\ HbTask("stop", TimedStop(CurHb))

HbReceivedPongCall == hb.interval > 0 /\ HbTask("receivedPong", TimedReceivedPong(CurHb))

HbResetCall == hb.interval > 0 /\ HbTask("reset", TimedReset(CurHb))

Tick ==
  /\ hb.interval > 0
  /\ clock < MaxTime
  /\ \A due \in Armed(hb) : due > clock
  /\ HbTask("tick", CurHb)

\* the ping timer intervalId refers to is due
FirePing ==
  /\ hb.intervalId = clock
  /\ HbTask("ping", TimedPingCallback([CurHb EXCEPT !.intervalId = Null]))

\* the deadline timer timeoutId refers to is due
FireDeadline ==
  /\ hb.timeoutId = clock
  /\ HbTask("deadline", TimedDeadlineCallback([CurHb EXCEPT !.timeoutId = Null]))

\* a forgotten timer is due
FireStale(i) ==
  /\ i \in 1..Len(hb.stale)
  /\ hb.stale[i].due = clock
  /\ LET h == [CurHb EXCEPT !.stale = SubSeq(@, 1, i - 1) \o SubSeq(@, i + 1, Len(@))]
     IN HbTask(hb.stale[i].kind,
               IF hb.stale[i].kind = "ping" THEN TimedPingCallback(h)
               ELSE TimedDeadlineCallback(h))

NextHB ==
  \/ \E interval \in 1..MaxInterval, pongTimeout \in {Null} \cup 1..MaxInterval :
       HbNew(interval, pongTimeout)
  \/ HbStartCall
  \/ HbStopCall
  \/ HbReceivedPongCall
  \/ HbResetCall
  \/ Tick
  \/ FirePing
  \/ FireDeadline
  \/ \E i \in 1..MaxStale : FireStale(i)

SpecHB == Init /\ [][NextHB]_vars

\* ------------------------------------------------- one call of retry()
\* fn, isRetryable and onRetry are the caller's; onRetry does not throw and
\* none of them aborts the signal.  The time a delay takes is not modelled:
\* an armed sleep timer fires at some later task.
RetryNew(maxAttempts, signal) ==
  [NoRetry EXCEPT !.maxAttempts = maxAttempts, !.signal = signal]

\* an error leaves retry(): the promise it returned rejects
RetryThrow(r, err) ==
  [r EXCEPT !.pc = "done", !.outcome = "rejected", !.error = err]

\* await sleep(delay, signal), up to the timer being armed
Sleep(r) ==
  IF r.signal = "aborted" THEN RetryThrow(r, AbortError)
  ELSE [r EXCEPT !.pc = "sleep", !.slept = @ + 1]

\* the catch block retrying whatever isRetryable(error) says
RetryCatch_IgnoresRetryable(r, err) ==
  LET c == [r EXCEPT !.lastError = err] IN
  IF err.kind = "abort" THEN RetryThrow(c, err)
  ELSE IF c.maxAttempts # 0 /\ c.attempt >= c.maxAttempts - 1 THEN RetryThrow(c, err)
  ELSE Sleep([c EXCEPT !.onRetry = Append(@, c.attempt + 1)])

\* the catch block of the loop body
RetryCatch(r, err) ==
  LET c == [r EXCEPT !.lastError = err] IN
  IF err.kind = "abort" THEN RetryThrow(c, err)
  ELSE IF err.kind = "fatal" THEN RetryThrow(c, err)
  ELSE IF c.maxAttempts # 0 /\ c.attempt >= c.maxAttempts - 1 THEN RetryThrow(c, err)
  ELSE Sleep([c EXCEPT !.onRetry = Append(@, c.attempt + 1)])

\* the loop condition and the try block, up to fn() being awaited
RetryLoop(r) ==
  IF ~(r.maxAttempts = 0 \/ r.attempt < r.maxAttempts) THEN RetryThrow(r, r.lastError)
  ELSE IF r.signal = "aborted" THEN RetryCatch(r, AbortError)
  ELSE [r EXCEPT !.pc = "fn", !.invocations = @ + 1]

\* return await fn(), fn's promise having resolved
RetryReturn(r) ==
  [r EXCEPT !.pc = "done", !.outcome = "resolved", !.value = r.invocations]

\* the loop going round without attempt++
RetryWake_NoCount(r) == RetryLoop(r)

\* the sleep timer fired: attempt++, and the loop goes round
RetryWake(r) == RetryLoop([r EXCEPT !.attempt = @ + 1])

\* signal.abort(): the listener sleep() added clears the timer and rejects
RetryAbort(r) ==
  LET a == [r EXCEPT !.signal = "aborted"] IN
  IF r.pc = "sleep" THEN RetryThrow(a, AbortError) ELSE a

RtTask(name, r) ==
  /\ rt' = r
  /\ rtStep' = name
  /\ UNCHANGED <<cfgVars, mgrVars, obsVars, smVars, hbVars, bo, extVars>>

RtCall(maxAttempts, signal) ==
  /\ rt.pc = "idle"
  /\ RtTask("call", RetryLoop(RetryNew(maxAttempts, signal)))

RtFnResolves == rt.pc = "fn" /\ RtTask("fnResolves", RetryReturn(rt))

RtFnRejects(kind) ==
  /\ rt.pc = "fn"
  /\ RtTask("fnRejects", RetryCatch(rt, Thrown(kind, rt.invocations)))

RtSleepDone ==
  /\ rt.pc = "sleep"
  /\ rt.invocations < MaxInvocations
  /\ RtTask("sleepDone", RetryWake(rt))

RtAbort ==
  /\ rt.pc # "idle"
  /\ rt.signal = "live"
  /\ RtTask("abort", RetryAbort(rt))

NextRetry ==
  \/ \E n \in 0..MaxTries, sig \in {"none", "live", "aborted"} : RtCall(n, sig)
  \/ RtFnResolves
  \/ \E kind \in ErrorKinds : RtFnRejects(kind)
  \/ RtSleepDone
  \/ RtAbort

SpecRetry == Init /\ [][NextRetry]_vars

\* ------------------------------------------- calculateBackoff()
\* The arithmetic is exact: the multiplier is a number of halves, so the
\* delays are fractions over 2^attempt, and Math.random() is k / JitterSteps.
\* The rounding of the floating-point operations is not modelled.
RECURSIVE Pow(_, _)
Pow(b, n) == IF n = 0 THEN 1 ELSE b * Pow(b, n - 1)

Min(a, b) == IF a <= b THEN a ELSE b

\* what the fractions of a call are over
Scale(attempt) == Pow(2, attempt)

\* cappedDelay = Math.min(initialDelay * Math.pow(multiplier, attempt), maxDelay),
\* times Scale(attempt)
CappedDelay(attempt, initialDelay, maxDelay, multiplier2) ==
  Min(initialDelay * Pow(multiplier2, attempt), maxDelay * Scale(attempt))

\* calculateBackoff without the Math.min
CalculateBackoff_Uncapped(attempt, initialDelay, maxDelay, multiplier2, k) ==
  (initialDelay * Pow(multiplier2, attempt) * (3 * JitterSteps + 2 * k))
    \div (Scale(attempt) * 4 * JitterSteps)

\* calculateBackoff(attempt, {initialDelay, maxDelay, multiplier}) when
\* Math.random() returns k / JitterSteps:
\* Math.floor(cappedDelay + cappedDelay * 0.25 * (2 * k / JitterSteps - 1))
CalculateBackoff(attempt, initialDelay, maxDelay, multiplier2, k) ==
  (CappedDelay(attempt, initialDelay, maxDelay, multiplier2)
     * (3 * JitterSteps + 2 * k))
    \div (Scale(attempt) * 4 * JitterSteps)

BoCall(attempt, initialDelay, maxDelay, multiplier2, k) ==
  /\ bo = NoBackoff
  /\ bo' = [attempt |-> attempt, initialDelay |-> initialDelay, maxDelay |-> maxDelay,
            multiplier2 |-> multiplier2, draw |-> k,
            delay |-> CalculateBackoff(attempt, initialDelay, maxDelay, multiplier2, k)]
  /\ UNCHANGED <<cfgVars, mgrVars, obsVars, smVars, hbVars, rt, rtStep, extVars>>

NextBackoff ==
  \E attempt \in 0..MaxBackoffAttempt, initialDelay \in 0..MaxDelay,
     maxDelay \in 0..MaxDelay, multiplier2 \in 2..(2 * MaxMultiplier),
     k \in 0..(JitterSteps - 1) :
    BoCall(attempt, initialDelay, maxDelay, multiplier2, k)

SpecBackoff == Init /\ [][NextBackoff]_vars

\* ---------------------- the manager with its torn-down socket followed
\* The socket cleanup() let go of can still raise message events until it is
\* closed, and then its close event.  They run the handler the socket has,
\* which works on the manager as it is by then.
TornDownMessage(m, data) ==
  IF m.torn = "attached" THEN ManagerHandleMessage(m, data) ELSE m

TornDownCloseEvent(m) ==
  [IF m.torn = "attached" THEN HandleClose(m) ELSE m EXCEPT !.torn = "none"]

\* from now on the socket cleanup() lets go of is followed
Watch ==
  /\ step = "init"
  /\ torn = "unwatched"
  /\ Task("watch", [Cur EXCEPT !.torn = "none"])
  /\ UNCHANGED <<disconnectCalled, destroyed>>

TornDownFrame(data) ==
  /\ torn \in {"detached", "attached"}
  /\ Task("tornDownFrame", TornDownMessage(Cur, data))
  /\ UNCHANGED <<disconnectCalled, destroyed>>

TornDownClose ==
  /\ torn \in {"detached", "attached"}
  /\ Task("tornDownClose", TornDownCloseEvent(Cur))
  /\ UNCHANGED <<disconnectCalled, destroyed>>

NextTorn ==
  \/ Watch
  \/ Connect
  \/ Disconnect
  \/ WsOpen
  \/ RecvConnected
  \/ \E code \in ServerCodes : RecvError(code)
  \/ WsClose
  \/ ConnectionTimeout
  \/ ReconnectTimer
  \/ PingTimer
  \/ PongDeadline
  \/ \E code \in ServerCodes : TornDownFrame(Json("error", EmptyName, FALSE, code))
  \/ TornDownFrame(Json("connected", EmptyName, FALSE, "none"))
  \/ TornDownClose

SpecTorn == Init /\ [][NextTorn]_vars

\* ------------------------- the client with a listener that calls back
\* Before anything else the application registers one listener; the model
\* follows the client while it holds one socket at most.
Register(h) ==
  /\ step = "init"
  /\ hook = NoHook
  /\ hook' = h
  /\ UNCHANGED <<cfgVars, mgrVars, obsVars, smVars, hbVars, utilVars, sb>>

NextRe ==
  \/ \E h \in Hooks : Register(h)
  \/ ~doubled /\ Connect
  \/ ~doubled /\ Disconnect
  \/ ~doubled /\ \E c \in Channels : Subscribe(c)
  \/ ~doubled /\ WsOpen
  \/ ~doubled /\ RecvConnected
  \/ ~doubled /\ WsClose
  \/ ~doubled /\ ConnectionTimeout
  \/ ~doubled /\ ReconnectTimer
  \/ ~doubled /\ PingTimer
  \/ ~doubled /\ PongDeadline

SpecRe == Init /\ [][NextRe]_vars

\* ------------------------ the facade's subscriptions, call by call
\* PushFloClient.subscribe(), the handle it returns, unsubscribe() and an
\* inbound message, with every subscribe() call numbered so that the entry
\* and the callbacks of one call can be told from those of another.  The
\* client is never connected here: no frame is sent.
SbSubscribeCall(b, c) ==
  LET id == Len(b.chanOf) + 1
  IN [b EXCEPT !.chanOf = Append(@, c),
               !.entries = SbAdd(@, c, id),
               !.step = "subscribe", !.chan = c, !.handle = id,
               !.prev = b.entries[c], !.called = <<>>]

\* unsubscribe(channel)
SbUnsubscribeCall(b, c) ==
  LET e == b.entries[c]
  IN [b EXCEPT !.entries = SbRemove(@, c),
               !.unsubscribed = IF e = NoEntry THEN @ ELSE [@ EXCEPT ![e] = @ + 1],
               !.called = IF e = NoEntry THEN <<>> ELSE << <<"onUnsubscribed", e>> >>,
               !.step = "unsubscribe", !.chan = c, !.handle = 0, !.prev = e]

\* handle.unsubscribe(): () => this.unsubscribe(channel)
SbHandleUnsubscribe(b, h) ==
  [SbUnsubscribeCall(b, b.chanOf[h]) EXCEPT !.step = "handleUnsubscribe", !.handle = h]

\* SubscriptionManager.handleMessage(message)
SbHandleMessage(b, c) ==
  LET e == b.entries[c]
  IN [b EXCEPT !.called = IF e = NoEntry THEN <<>> ELSE << <<"onMessage", e>> >>,
               !.step = "message", !.chan = c, !.handle = 0, !.prev = e]

SbTask(b) ==
  /\ sb' = b
  /\ UNCHANGED <<cfgVars, mgrVars, obsVars, smVars, hbVars, utilVars, hook>>

SbSubscribe(c) ==
  /\ Len(sb.chanOf) < MaxSubs
  /\ SbTask(SbSubscribeCall(sb, c))

SbUnsubscribe(c) == SbTask(SbUnsubscribeCall(sb, c))

SbUseHandle(h) == SbTask(SbHandleUnsubscribe(sb, h))

SbMessage(c) == SbTask(SbHandleMessage(sb, c))

NextSubs ==
  \/ \E c \in Channels : SbSubscribe(c)
  \/ \E c \in Channels : SbUnsubscribe(c)
  \/ \E h \in 1..Len(sb.chanOf) : SbUseHandle(h)
  \/ \E c \in Channels : SbMessage(c)

SpecSubs == Init /\ [][NextSubs]_vars

\* ================================================================ claims
Subscribed == {c \in Names : subscriptions[c] # "absent"}
\* the last task took the manager into Connected (the pending connect resolved)
EnteredConnected == step = "connected" /\ result.kind = "resolved"
\* how often the callback `name` of channel c's entry ran in the last task
Calls(name, c) ==
  Cardinality({i \in 1..Len(called) : called[i] = <<name, c>>})
\* the last task created a physical connection
OpenedSocket == result.kind = "pending"

\* C1: every transition into Connected, by connect() or by an automatic
\* reconnect, sends a subscribe frame for every channel in the registry before
\* the next inbound frame is processed.
C1_ResubscribeOnEveryConnected ==
  EnteredConnected =>
    \A c \in Subscribed : Frame("subscribe", c) \in Range(sent)

\* C2: after disconnect() no physical connection attempt is made until the
\* application calls connect() again.
C2_NoAttemptAfterDisconnect == disconnectCalled => ~OpenedSocket

\* C3: right after disconnect() or destroy() none of the manager's four timers
\* is armed: the connection timeout, the heartbeat's ping timer, the
\* heartbeat's pong-deadline timer, the reconnect-delay timer.
C3_AllTimersCancelled ==
  step \in {"disconnect", "destroy"} =>
    /\ ~connectionTimeoutId
    /\ ~intervalId
    /\ ~timeoutId
    /\ ~reconnectTimeoutId

\* C4: when an application connect() succeeds, exactly one subscribe frame per
\* registered channel is sent on that connection, none for other channels, and
\* no subscribe frame is sent on a connection before its 'connected'
\* acknowledgement.
C4_OneSubscribePerChannel ==
  /\ ~acked => \A c \in Channels : Frame("subscribe", c) \notin Range(sent)
  /\ (EnteredConnected /\ result.origin = "app") =>
       /\ Len(sent) = Cardinality(Subscribed)
       /\ Range(sent) = {Frame("subscribe", c) : c \in Subscribed}

C4_Witness ==
  /\ EnteredConnected
  /\ result.origin = "app"
  /\ Subscribed = Channels
  /\ Len(sent) = NumChannels

\* C5: when a Connected connection is lost (close, or pong-deadline expiry) the
\* state becomes Disconnected and, with autoReconnect and attempts left under
\* the ceiling, a reconnect timer is armed; without autoReconnect none is.
C5_LossArmsReconnect ==
  (step \in {"lost", "heartbeatTimeout"} /\ ~destroyed) =>
    /\ state = "disconnected"
    /\ (autoReconnect /\ (maxReconnectAttempts = 0 \/ reconnectAttempt < maxReconnectAttempts))
         => reconnectTimeoutId
    /\ ~autoReconnect => ~reconnectTimeoutId

\* C6: with maxReconnectAttempts = N > 0, after a loss whose reconnect
\* attempts all fail, exactly N sockets are opened by the reconnect loop, then
\* one 'max attempts' error is emitted and nothing further is scheduled; with
\* N = 0 the error is never emitted.
C6_ExactlyNAttempts ==
  (episode = "lost" /\ autoReconnect /\ ~destroyed) =>
    /\ maxReconnectAttempts = 0 => maxErrors = 0
    /\ maxReconnectAttempts > 0 =>
         /\ loopAttempts <= maxReconnectAttempts
         /\ maxErrors <= 1
         /\ maxErrors = 1 =>
              (loopAttempts = maxReconnectAttempts /\ ~reconnectTimeoutId /\ ws = "null")
         \* at rest: no attempt in flight and none scheduled
         /\ (ws = "null" /\ ~reconnectTimeoutId) =>
              (loopAttempts = maxReconnectAttempts /\ maxErrors = 1)

\* C7: an authentication failure (error frame with UNAUTHORIZED or
\* INVALID_TOKEN) never schedules a reconnect attempt.
C7_AuthNeverSchedulesReconnect == step = "authError" => ~reconnectTimeoutId

\* C8: connect() while Connected fails with the non-retryable
\* ALREADY_CONNECTED, while Connecting with the non-retryable
\* CONNECTION_IN_PROGRESS; state, socket, timers and the
\* intentional-disconnect flag stay as they were and no socket is opened.
C8_ConnectRejectedWhileActive ==
  [][ (step' = "connect" /\ state \in {"connected", "connecting"}) =>
        /\ result'.kind = "rejected"
        /\ result'.err.code = IF state = "connected" THEN "ALREADY_CONNECTED"
                              ELSE "CONNECTION_IN_PROGRESS"
        /\ ~result'.err.retryable
        /\ UNCHANGED <<state, ws, pending, intentionalDisconnect, reconnectAttempt,
                       connectionTimeoutId, reconnectTimeoutId,
                       running, intervalId, timeoutId, staleInterval, staleTimeout,
                       subscriptions, acked>>
        /\ sent' = <<>> /\ emitted' = <<>> ]_vars

C8_Witness ==
  /\ step = "connect"
  /\ state = "connecting"
  /\ result.kind = "rejected"
  /\ result.err.code = "CONNECTION_IN_PROGRESS"
  /\ connectionTimeoutId

\* C9: a connection-timeout timer that fires while Connecting rejects the
\* pending connect with the retryable CONNECTION_TIMEOUT, drops the socket and
\* moves to Error; once the acknowledgement has arrived the timer is not armed
\* and so never fires.
C9_ConnectionTimeout ==
  /\ [](state = "connected" => ~connectionTimeoutId)
  /\ [][ step' = "connectionTimeout" =>
           /\ state = "connecting"
           /\ pending # "none"
           /\ state' = "error"
           /\ ws' = "null"
           /\ ~connectionTimeoutId'
           /\ pending' = "none"
           /\ result'.kind = "rejected"
           /\ result'.origin = pending
           /\ result'.err.code = "CONNECTION_TIMEOUT"
           /\ result'.err.retryable
           /\ emitted'[1] = [type |-> "error",
                             err |-> [code |-> "CONNECTION_TIMEOUT", retryable |-> TRUE]] ]_vars

C9_Witness ==
  /\ step = "connectionTimeout"
  /\ state = "error"
  /\ ws = "null"
  /\ result.kind = "rejected"
  /\ result.err.code = "CONNECTION_TIMEOUT"

\* the eight permitted (from, to) pairs
TablePairs ==
  { <<"disconnected", "connecting">>, <<"connecting", "connected">>,
    <<"connecting", "disconnected">>, <<"connecting", "error">>,
    <<"connected", "disconnected">>, <<"connected", "error">>,
    <<"error", "connecting">>, <<"error", "disconnected">> }

\* C10: transition(t) in state s succeeds iff t = s or (s, t) is a table pair;
\* for a table pair the state becomes t and every registered observer is
\* notified once with t, in registration order; for t = s nothing changes and
\* nobody is notified; otherwise it fails, the state stays s and nobody is
\* notified.
C10_TransitionContract ==
  [][ smCall'.op = "transition" =>
        LET s == smState
            t == smCall'.arg
        IN /\ (returned' = "true") <=> (t = s \/ <<s, t>> \in TablePairs)
           /\ returned' \in {"true", "false"}
           /\ <<s, t>> \in TablePairs =>
                /\ smState' = t
                /\ Len(notified') = Len(listeners)
                /\ \A i \in 1..Len(listeners) : notified'[i] = <<listeners[i], t>>
           /\ <<s, t>> \notin TablePairs =>
                /\ smState' = s
                /\ notified' = <<>>
           /\ listeners' = listeners ]_vars

C10_Witness ==
  /\ smCall = [op |-> "transition", arg |-> "connected"]
  /\ smState = "connected"
  /\ returned = "true"
  /\ Len(listeners) = NumObservers
  /\ Len(notified) = NumObservers

\* C11: send(message) never throws; with no socket held, or a socket that is
\* not open, it returns false and hands nothing to the socket; it returns
\* true exactly when it handed the frame to the open socket; subscribe() and
\* unsubscribe() return what send() returns for their frame.
C11_SendReportsDelivery ==
  step \in {"send", "wsmSubscribe", "wsmUnsubscribe"} =>
    /\ result.kind \in {"true", "false"}
    /\ ws # "open" => result.kind = "false" /\ sent = <<>>
    /\ result.kind = "true" <=> Len(sent) = 1
    /\ result.kind = "false" => sent = <<>>
    /\ step = "wsmSubscribe" /\ result.kind = "true"
         => sent = <<Frame("subscribe", chan)>>
    /\ step = "wsmUnsubscribe" /\ result.kind = "true"
         => sent = <<Frame("unsubscribe", chan)>>

\* subscribe() returned false on a socket that is still connecting
C11_Witness ==
  /\ step = "wsmSubscribe"
  /\ ws = "connecting"
  /\ result.kind = "false"
  /\ sent = <<>>

\* C12: the set of registered channels changes only in subscribe(),
\* unsubscribe() and destroy(): connect(), disconnect(), a close of the
\* socket, a heartbeat or connection timeout, a server frame and a reconnect
\* attempt all leave it as it was.
C12_RegistryChangesOnlyByApplication ==
  [][Subscribed' # Subscribed
       => step' \in {"subscribe", "unsubscribe", "destroy"}]_vars

\* an established connection was lost with every channel registered
C12_Witness ==
  /\ step = "lost"
  /\ Subscribed = Channels
  /\ reconnectTimeoutId

\* C13: whenever the client enters Connected on a new physical connection,
\* by an application connect() or by an automatic reconnect, no entry is
\* confirmed: the confirmed flags were reset and no 'subscribed' frame has
\* arrived on this connection since.
C13_NoConfirmationSurvivesReconnect ==
  EnteredConnected => \A c \in Names : subscriptions[c] # "confirmed"

\* C14: remove(channel) on a registered channel deletes the entry, invokes
\* that entry's onUnsubscribed once and nothing else, and returns true; on
\* an unregistered channel it changes nothing, invokes nothing and returns
\* false.  clear() invokes onUnsubscribed once for every entry that was
\* present, nothing else, and leaves the registry empty.
C14_RemoveAndClear ==
  [][/\ step' = "remove" /\ subscriptions[chan'] # "absent"
        => /\ subscriptions' = [subscriptions EXCEPT ![chan'] = "absent"]
           /\ called' = << <<"onUnsubscribed", chan'>> >>
           /\ result'.kind = "true"
     /\ step' = "remove" /\ subscriptions[chan'] = "absent"
        => /\ subscriptions' = subscriptions
           /\ called' = <<>>
           /\ result'.kind = "false"
     /\ step' = "clear"
        => /\ Subscribed' = {}
           /\ Len(called') = Cardinality(Subscribed)
           /\ \A c \in Subscribed : Calls("onUnsubscribed", c)' = 1]_vars

\* clear() ran on a registry of two entries
C14_Witness ==
  /\ step = "clear"
  /\ Len(called) = 2
  /\ Subscribed = {}

\* C15: a 'message' frame for a channel that has no entry invokes no
\* subscription callback, raises no error and leaves the registry as it was.
C15_MessageWithoutEntryDropped ==
  [][step' = "message" /\ subscriptions[chan'] = "absent"
       => /\ called' = <<>>
          /\ subscriptions' = subscriptions
          /\ result'.kind = "none"
          /\ \A e \in Range(emitted') : e.type # "error"]_vars

\* a well-formed message arrived for a channel without an entry while
\* another channel is subscribed
C15_Witness ==
  /\ step = "message"
  /\ subscriptions[chan] = "absent"
  /\ Ev("clientMessage", NoErr) \in Range(emitted)
  /\ Subscribed # {}
  /\ called = <<>>

\* C16: while a channel is subscribed (the client is connected and the
\* subscription confirmed), every 'message' frame received for it invokes that channel's onMessage once, in the task that received the
\* frame, and so in arrival order.
C16_EveryMessageDelivered ==
  step = "message" /\ state = "connected" /\ subscriptions[chan] = "confirmed"
    => called = << <<"onMessage", chan>> >>

\* C17: after start() on an idle heartbeat and no other call, the ping
\* callback runs when exactly `interval` has elapsed and not at any other
\* time; with no pong, the timeout callback runs when exactly
\* `interval + pongTimeout` has elapsed and not at any other time.
C17_StartTiming ==
  hbObs.startAt # Null =>
    /\ "onPing" \in Range(hb.calls) => clock = hbObs.startAt + hb.interval
    /\ "onTimeout" \in Range(hb.calls)
         => clock = hbObs.startAt + hb.interval + hb.pongTimeout
    /\ clock > hbObs.startAt + hb.interval => hbObs.pinged
    /\ clock > hbObs.startAt + hb.interval + hb.pongTimeout => hbObs.timedOut

\* C18: receivedPong() called while a pong deadline is armed cancels the
\* deadline and restarts the countdown: with no other call, the next ping
\* callback runs when exactly `interval` has elapsed since the pong and not
\* before.
C18_PongRestartsInterval ==
  hbObs.pongAt # Null =>
    /\ hbStep = "receivedPong" => hb.timeoutId = Null
    /\ "onPing" \in Range(hb.calls) => clock = hbObs.pongAt + hb.interval
    /\ clock > hbObs.pongAt + hb.interval => hbObs.pongPinged

\* C19: subscribe('') throws a validation error that is not retryable before
\* it does anything else: the registry and the connection are as they were
\* and no frame is sent.
C19_EmptyChannelRejected ==
  [][step' = "subscribe" /\ chan' = EmptyName
       => /\ result'.kind = "threw"
          /\ result'.err.code = "INVALID_CHANNEL"
          /\ ~result'.err.retryable
          /\ subscriptions' = subscriptions
          /\ sent' = <<>>
          /\ called' = <<>>
          /\ <<state, ws, pending>>' = <<state, ws, pending>>]_vars

\* subscribe('') was refused on an established connection
C19_Witness ==
  /\ step = "subscribe"
  /\ chan = EmptyName
  /\ result = Threw(InvalidChannel)
  /\ state = "connected"
  /\ ws = "open"

\* C20: the reconnect attempt counter is zero after every successful connect
\* (receipt of the 'connected' acknowledgement) and after every disconnect().
C20_CounterZeroAfterDisconnect ==
  (EnteredConnected \/ step = "disconnect") => reconnectAttempt = 0


\* C21: retry(fn) stops at the first failure that is not retryable: when fn
\* fails with an error isRetryable() is false for, or with an abort error,
\* the call rejects with that error in the same step, without a further
\* invocation of fn, without a delay and without an onRetry notification;
\* a call that has ended does none of these any more.
C21_StopsAtFirstNonRetryable ==
  [][((rtStep' = "fnRejects" /\ rt'.lastError.kind \in {"fatal", "abort"}) =>
        /\ rt'.pc = "done"
        /\ rt'.outcome = "rejected"
        /\ rt'.error = Thrown(rt'.lastError.kind, rt.invocations)
        /\ rt'.invocations = rt.invocations
        /\ rt'.slept = rt.slept
        /\ rt'.onRetry = rt.onRetry)
     /\ ((rt.pc = "done") =>
        /\ rt'.invocations = rt.invocations
        /\ rt'.slept = rt.slept
        /\ rt'.onRetry = rt.onRetry)]_vars
\* a second invocation failed with an error that is not retryable
C21_Witness ==
  /\ rtStep = "fnRejects"
  /\ rt.lastError = Thrown("fatal", 2)
  /\ rt.outcome = "rejected"

\* C22: retry(fn) with maxAttempts = N > 0 invokes fn at most N times; it
\* resolves with the result of the first invocation that succeeds; when the
\* N-th invocation fails with a retryable error the call rejects with that
\* error, and a call that rejects with a retryable error has made exactly N
\* invocations and N-1 onRetry notifications, numbered 1..N-1.
C22_AtMostNInvocations ==
  rt.maxAttempts > 0 =>
    /\ rt.invocations <= rt.maxAttempts
    /\ (rt.outcome = "resolved") =>
         (rt.value = rt.invocations /\ Len(rt.onRetry) = rt.invocations - 1)
    /\ (rt.lastError = Thrown("retryable", rt.maxAttempts)) =>
         (rt.outcome = "rejected" /\ rt.error = rt.lastError)
    /\ (rt.outcome = "rejected" /\ rt.error.kind = "retryable") =>
         (/\ rt.invocations = rt.maxAttempts
          /\ rt.error = Thrown("retryable", rt.maxAttempts)
          /\ rt.onRetry = [i \in 1..(rt.maxAttempts - 1) |-> i]
          /\ rt.slept = rt.maxAttempts - 1)
\* every one of the MaxTries invocations failed with a retryable error
C22_Witness ==
  /\ rt.maxAttempts = MaxTries
  /\ rt.outcome = "rejected"
  /\ rt.error = Thrown("retryable", MaxTries)

\* how many timers the heartbeat armed are still armed
ArmedCount(h) ==
  Len(h.stale) + (IF h.intervalId # Null THEN 1 ELSE 0)
               + (IF h.timeoutId # Null THEN 1 ELSE 0)

\* C23: in every reachable state at most one heartbeat timer is armed, of
\* either kind: the ping timer or the pong deadline, never both and never
\* two of one kind.
C23_AtMostOneTimerArmed == ArmedCount(hb) <= 1

\* the last task was the pong deadline firing on a running heartbeat
TimedOut == hbStep = "deadline" /\ "onTimeout" \in Range(hb.calls)

\* C24: the pong deadline firing on a running heartbeat invokes the timeout
\* callback once; whatever comes next other than start() arms no timer and
\* invokes no callback, and a start() that comes next arms the ping timer
\* for `interval` from then.
C24_TimeoutStopsUntilStart ==
  [][/\ (hbStep' = "deadline" /\ hb.running) => hb'.calls = <<"onTimeout">>
     /\ (TimedOut /\ hbStep' # "start") =>
          (hb'.calls = <<>> /\ ArmedCount(hb') <= ArmedCount(hb))
     /\ (TimedOut /\ hbStep' = "start") =>
          hb'.intervalId = clock + hb.interval]_vars

\* C25: start() on a running heartbeat changes nothing.  While the heartbeat
\* is not running no callback is invoked: not when time passes the moment a
\* timer armed before stop() was due, not when such a timer fires, and not
\* by receivedPong(), which then changes nothing either.
C25_IdleHeartbeatIsSilent ==
  [][/\ (hbStep' = "start" /\ hb.running) => hb' = CurHb
     /\ (hbStep' = "receivedPong" /\ ~hb.running) => hb' = CurHb
     /\ ~hb'.running => hb'.calls = <<>>]_vars
\* a timer armed before stop() fired on the stopped heartbeat
C25_Witness ==
  /\ hbStep \in {"ping", "deadline"}
  /\ ~hb.running
  /\ hb.calls = <<>>

\* how often the event ev was emitted in the task m describes
Emissions(m, ev) == Cardinality({i \in 1..Len(m) : m[i] = ev})

\* C26: when the socket closes while the manager is Connecting and
\* disconnect() was not called, the manager goes to Error, emits the
\* connection-failed error event once and first, and rejects the pending
\* connect with that retryable error.  The close handler arms no reconnect
\* timer: after a failed connect() of the application none is armed, and
\* after a failed attempt of the reconnect loop only what the loop's own
\* rescheduling did follows (the timer, or the 'max attempts' error).
C26_CloseWhileConnecting ==
  [][(step' = "close" /\ state = "connecting" /\ ~intentionalDisconnect) =>
       /\ state' = "error"
       /\ ws' = "null"
       /\ emitted'[1] = Ev("error", FailedError)
       /\ Emissions(emitted', Ev("error", FailedError)) = 1
       /\ FailedError.retryable /\ FailedError.code = "CONNECTION_FAILED"
       /\ pending' = "none"
       /\ result' = [kind |-> "rejected", err |-> FailedError, origin |-> pending]
       /\ (pending = "app") =>
            (Len(emitted') = 1 /\ ~reconnectTimeoutId')
       /\ (pending = "loop") =>
            \/ (Len(emitted') = 1 /\ reconnectTimeoutId')
            \/ (emitted' = <<Ev("error", FailedError), Ev("error", MaxAttemptsError)>>
                 /\ ~reconnectTimeoutId')]_vars
\* the application's connect() failed by a close, with autoReconnect on
C26_Witness ==
  /\ step = "close"
  /\ result = [kind |-> "rejected", err |-> FailedError, origin |-> "app"]
  /\ autoReconnect
  /\ state = "error"

\* C27: a server error frame received while the manager is Connected emits
\* exactly one error event and changes nothing else: the state, the socket,
\* the heartbeat and its timers, the reconnect counter and timer, the pending
\* connect and the registry are as before, nothing is sent and no
\* subscription callback runs.
C27_ErrorFrameWhileConnected ==
  [][(step' \in {"authError", "serverError"} /\ state = "connected") =>
       /\ Len(emitted') = 1
       /\ emitted'[1].type = "error"
       /\ emitted'[1].err \in {ServerError(code) : code \in ServerCodes}
       /\ sent' = <<>> /\ called' = <<>>
       /\ UNCHANGED <<state, ws, acked, running, intervalId, timeoutId,
                      staleInterval, staleTimeout, reconnectAttempt,
                      reconnectTimeoutId, connectionTimeoutId, pending,
                      intentionalDisconnect, subscriptions>>]_vars
\* an error frame arrived on an established connection with a subscription
C27_Witness ==
  /\ step = "serverError"
  /\ state = "connected"
  /\ running
  /\ Subscribed # {}
  /\ emitted = <<Ev("error", ServerError("RATE_LIMITED"))>>

\* C28: an inbound frame that does not parse is dropped: whatever state the
\* manager is in, the state, the socket, every timer, the pending connect,
\* the counters and the registry are as before, no event is emitted, nothing
\* is sent and no subscription callback runs.
C28_UnparseableFrameDropped ==
  [][step' = "unparseable" =>
       /\ emitted' = <<>> /\ sent' = <<>> /\ called' = <<>>
       /\ result'.kind = "none"
       /\ UNCHANGED <<state, ws, acked, running, intervalId, timeoutId,
                      staleInterval, staleTimeout, reconnectAttempt,
                      reconnectTimeoutId, connectionTimeoutId, pending,
                      intentionalDisconnect, subscriptions>>]_vars
\* such a frame arrived while the application's connect() awaited 'connected'
C28_Witness ==
  /\ step = "unparseable"
  /\ state = "connecting"
  /\ pending = "app"
  /\ connectionTimeoutId
  /\ Subscribed # {}

\* C29: every call that changes the state invokes all registered observers
\* once each, in registration order, with the new state, and transition()
\* returns true, whichever observers throw.  Only onChange() adds an observer;
\* the unsubscribe function takes its observer out and removeAllListeners()
\* all of them, and only registered observers are ever invoked, so a removed
\* observer is not invoked again.
C29_ObserversNotifiedInOrder ==
  [][/\ (smState' # smState) =>
          /\ notified' = [i \in 1..Len(listeners) |-> <<listeners[i], smState'>>]
          /\ smCall'.op = "transition" => (returned' = "true" /\ smState' = smCall'.arg)
          /\ smCall'.op = "forceTransition" => smState' = smCall'.arg
     /\ \A i \in 1..Len(notified') : InSeq(listeners, notified'[i][1])
     /\ (smCall'.op # "onChange") => Range(listeners') \subseteq Range(listeners)
     /\ (smCall'.op = "unsubscribe" /\ returned' = "true") =>
          Cardinality(Range(listeners')) = Cardinality(Range(listeners)) - 1
     /\ (smCall'.op = "removeAllListeners") => listeners' = <<>>]_vars
\* the first observer threw and the second was notified all the same
C29_Witness ==
  /\ smCall.op = "transition"
  /\ returned = "true"
  /\ Len(notified) = NumObservers
  /\ logged # <<>>
  /\ logged[1] = notified[1][1]

\* c = min(initialDelay x multiplier^n, maxDelay) of the call made, times
\* Scale(n)
BoCapped == CappedDelay(bo.attempt, bo.initialDelay, bo.maxDelay, bo.multiplier2)

C31_AnsweredPingsNeverTimeOut ==
  "onTimeout" \in Range(hb.calls) =>
    /\ hbObs.unanswered # Null
    /\ clock >= hbObs.unanswered + hb.pongTimeout

\* C32: the state machine refuses no transition the manager requests: each
\* request is for the state the machine is in, which changes nothing, or for
\* a pair of the table.
C32_ManagerStaysInTable == ~refused

\* C33: in every reachable state, after destroy() as well, the heartbeat is
\* running exactly when the state is Connected, and in Connected a socket is
\* held.
C33_HeartbeatIffConnected ==
  /\ running <=> (state = "connected")
  /\ (state = "connected") => (ws # "null")

\* C36: a subscribe frame is sent only for a channel that is in the registry
\* when the task that sent it ends, and unsubscribe(c) leaves c out of the
\* registry in whatever state it is called; so after unsubscribe(c) no
\* connect or reconnect sends a subscribe frame for c until subscribe(c) puts
\* it back.
C36_SubscribeFramesOnlyForRegistered ==
  /\ \A c \in Names :
       Frame("subscribe", c) \in Range(sent) => subscriptions[c] # "absent"
  /\ (step = "unsubscribe") => subscriptions[chan] = "absent"
\* unsubscribe() took an entry out of the registry while Disconnected
C36_Witness ==
  /\ step = "unsubscribe"
  /\ state = "disconnected"
  /\ called = << <<"onUnsubscribed", chan>> >>
  /\ subscriptions[chan] = "absent"

\* C38: with autoReconnect and no ceiling, from the loss of an established
\* connection until the application calls connect(), disconnect() or
\* destroy(), the manager is Connected, or Connecting with its connection
\* timeout armed, or waiting on an armed reconnect timer.
C38_NeverAtRestAfterLoss ==
  (episode = "lost" /\ autoReconnect /\ maxReconnectAttempts = 0) =>
    \/ state = "connected"
    \/ state = "connecting" /\ connectionTimeoutId
    \/ reconnectTimeoutId

\* the promise of the application's connect() was resolved or rejected by
\* the last task
SettledForApp ==
  result.origin = "app" /\ result.kind \in {"resolved", "rejected"}

\* C35: every accepted connect() call eventually settles: while the promise
\* of the application's connect() is pending, a later task resolves or
\* rejects it, whatever the application calls meanwhile, provided armed
\* timers fire.
C35_AcceptedConnectSettles == (pending = "app") ~> SettledForApp

\* C37: unsubscribe() on the handle of one subscribe(c) call removes only
\* that subscription: when the entry of c belongs to a later subscribe(c)
\* call, the later entry stays registered, and the onUnsubscribed of the
\* handle's own, replaced, subscription has been invoked exactly once.
C37_HandleRemovesOnlyItsOwn ==
  (sb.step = "handleUnsubscribe" /\ sb.prev # NoEntry /\ sb.prev # sb.handle) =>
    /\ sb.entries[sb.chan] = sb.prev
    /\ sb.unsubscribed[sb.handle] = 1

\* C34: the manager holds one live socket at most: no task creates a
\* WebSocket while a socket created before is still held with its handlers
\* attached, whatever connect() and disconnect() calls are made, also from
\* inside listeners, and whatever timers and transport events occur.
C34_OneSocketAtATime == ~doubled

\* subscribe frames for channel c among the frames fs
SubscribeFrames(fs, c) ==
  Cardinality({i \in 1..Len(fs) : fs[i] = Frame("subscribe", c)})

\* C39: one subscribe(c) call causes one subscribe frame for c at most on a
\* connection: a task that starts with c not registered and in which the
\* application's listener runs once at most hands the socket at most one
\* subscribe frame for c, also when the listener calls subscribe(c) after
\* the 'connected' acknowledgement and before the replay of connect().
C39_OneFramePerSubscribe ==
  [][\A c \in Channels :
       (subscriptions[c] = "absent" /\ invoked' <= 1)
         => SubscribeFrames(sent', c) <= 1]_vars

\* C40: a frame or the close event of a socket the manager has torn down is
\* not processed: the task it runs changes neither the state nor the held
\* socket nor any timer, emits nothing, settles no connect() and schedules
\* no reconnect, whatever the manager is doing by then.
C40_TornDownSocketIsSilent ==
  [][(step' \in {"tornDownFrame", "tornDownClose"}) =>
       ( (state' = state) /\ (ws' = ws) /\ (acked' = acked)
         /\ (connectionTimeoutId' = connectionTimeoutId)
         /\ (reconnectTimeoutId' = reconnectTimeoutId)
         /\ (reconnectAttempt' = reconnectAttempt)
         /\ (intentionalDisconnect' = intentionalDisconnect)
         /\ (running' = running) /\ (intervalId' = intervalId)
         /\ (timeoutId' = timeoutId)
         /\ (staleInterval' = staleInterval) /\ (staleTimeout' = staleTimeout)
         /\ (pending' = pending) /\ (result'.kind = "none")
         /\ (emitted' = <<>>) /\ (sent' = <<>>) )]_vars
\* the close event of a torn-down socket arrived while a newer connection
\* was Connected
C40_Witness ==
  /\ step = "tornDownClose"
  /\ state = "connected"
  /\ ws = "open"
  /\ running
====
